---------------------------- MODULE Spec2Model ----------------------------
(***************************************************************************)
(* Model of the binary acquisition and lifecycle manager of the           *)
(* FlatBuffers language-server extension (src/src/extension.ts):          *)
(* getLanguageServerPath, checkForUpdatesInBackground,                    *)
(* downloadLanguageServer, cleanupOldVersions, activate.                  *)
(*                                                                         *)
(* Strings that the code builds by concatenation are modelled as          *)
(* sequences of tokens, so that startsWith / endsWith / equality are      *)
(* computed as the code computes them.  Versions are the numbers          *)
(* 1..MaxVersion; NoVersion is the undefined value of an unset key.       *)
(***************************************************************************)
EXTENDS Naturals, Sequences, FiniteSets, TLC

\* ------------------------------------------------------------ bounds
MaxVersion == 2

Versions == 1..MaxVersion

\* globalState.get of a key never written (undefined, falsy)
NoVersion == 0

\* ------------------------------------------------------------ constants
BINARY_NAME == "flatbuffers-language-server"

VERSION_PREFIX == <<"flatbuffers-language-server", "-">>

\* null / undefined path (falsy)
NULL == <<>>

\* context.globalStorageUri.fsPath
StoragePath == <<"globalStorage">>

\* the values the setting languageServer.path can hold: unset, a path that
\* exists, a path that does not exist
UserPaths == { NULL, <<"/opt/fbs/flatbuffers-language-server">>, <<"/missing/server">> }

\* the outcomes of which(BINARY_NAME): not found (throws) or the found path
WhichResults == { NULL, <<"/usr/bin/flatbuffers-language-server">> }

\* (process.platform, process.arch) of the machines considered
Platforms == { <<"linux", "x64">>, <<"win32", "arm64">>, <<"freebsd", "x64">> }

\* ------------------------------------------------------------ pure helpers
startsWith(s, p) ==
    /\ Len(s) >= Len(p)
    /\ SubSeq(s, 1, Len(p)) = p

endsWith(s, p) ==
    /\ Len(s) >= Len(p)
    /\ SubSeq(s, Len(s) - Len(p) + 1, Len(s)) = p

\* `${VERSION_PREFIX}${version}`
VersionDirName(v) == VERSION_PREFIX \o <<v>>

\* BINARY_NAME + (process.platform === 'win32' ? '.exe' : '')
BinaryName(plat) ==
    IF plat[1] = "win32" THEN <<BINARY_NAME, ".exe">> ELSE <<BINARY_NAME>>

\* path.join(storagePath, versionDir, binaryName)
BinaryPath(plat, v) ==
    StoragePath \o <<"/">> \o VersionDirName(v) \o <<"/">> \o BinaryName(plat)

OsTriple(os) ==
    CASE os = "darwin" -> "apple-darwin"
      [] os = "linux"  -> "unknown-linux-gnu"
      [] os = "win32"  -> "pc-windows-msvc"
      [] OTHER         -> ""

ArchName(arch) ==
    CASE arch = "x64"   -> "x86_64"
      [] arch = "arm64" -> "aarch64"
      [] OTHER          -> ""

\* deviation: the archive is a gzipped tar on every platform
getAssetName_AlwaysTarGz(plat, v) ==
    IF OsTriple(plat[1]) = "" THEN NULL
    ELSE IF ArchName(plat[2]) = "" THEN NULL
    ELSE <<BINARY_NAME, "-", v, "-", ArchName(plat[2]), "-", OsTriple(plat[1]), ".",
           "tar.gz">>

\* getAssetName(version) on platform plat; NULL when unsupported
getAssetName(plat, v) ==
    IF OsTriple(plat[1]) = "" THEN NULL
    ELSE IF ArchName(plat[2]) = "" THEN NULL
    ELSE <<BINARY_NAME, "-", v, "-", ArchName(plat[2]), "-", OsTriple(plat[1]), ".",
           IF plat[1] = "win32" THEN "zip" ELSE "tar.gz">>

\* the assets a complete release of version v carries
FullAssets(v) ==
    { getAssetName(<<os, arch>>, v) : os \in {"darwin", "linux", "win32"},
                                      arch \in {"x64", "arm64"} }

\* ------------------------------------------------------------ state
VARIABLES
    \* persisted across sessions
    latestKnownVersion,     \* globalState[LATEST_VERSION_KEY]
    latestSkippedVersion,   \* globalState[LATEST_SKIPPED_VERSION_KEY]
    autoDownload,           \* setting flatbuffers.languageServer.autoDownload
    rootExists,             \* the storage root directory exists
    entries,                \* names of the entries of the storage root
    binaries,               \* versions whose directory holds the binary
    \* environment
    platform,               \* <<process.platform, process.arch>>
    selector,               \* a call of getAssetName on its own: argument, result
    \* the activation in progress
    pc,                     \* position of activate / getLanguageServerPath
    userDefinedPath,
    pathFromWhich,
    shouldAutoDownload,
    cachedVersion,
    serverPath,             \* what getLanguageServerPath returned
    branch,                 \* which branch of getLanguageServerPath resolved
    client,                 \* the LanguageClient of line 62, or NULL
    bg,                     \* checkForUpdatesInBackground
    dl,                     \* downloadLanguageServer, per flow
    reaper,                 \* cleanupOldVersions, per flow
    \* what the user and the console have seen in this activation
    prompts,
    errorMessages,
    consoleErrors,
    network,                \* requests issued in this activation
    reloadCommand,          \* workbench.action.reloadWindow was executed
    settingsPrompt,         \* the settings watcher's 'Reload Window' message
    \* history
    snap,                   \* persisted state when getLanguageServerPath began
    existedAtCheck,         \* outcome of fs.pathExists in the cache branch
    missChoice,             \* the answer given to the cache-miss prompt
    lastSkipChoice,         \* version of the latest 'Skip This Version' choice
    skipBeforeCheck         \* lastSkipChoice when the running check compared

persistent == <<latestKnownVersion, latestSkippedVersion, autoDownload,
                rootExists, entries, binaries>>
store      == <<latestKnownVersion, latestSkippedVersion>>
disk       == <<rootExists, entries, binaries>>
env        == <<platform, selector>>
inputs     == <<userDefinedPath, pathFromWhich, shouldAutoDownload, cachedVersion>>
ui         == <<prompts, errorMessages, consoleErrors, network, reloadCommand>>
hist       == <<snap, existedAtCheck, missChoice, lastSkipChoice, skipBeforeCheck>>

vars == <<latestKnownVersion, latestSkippedVersion, autoDownload, rootExists,
          entries, binaries, platform, selector, pc, userDefinedPath,
          pathFromWhich, shouldAutoDownload, cachedVersion, serverPath, branch,
          client, bg, dl, reaper, prompts, errorMessages, consoleErrors,
          network, reloadCommand, settingsPrompt, snap, existedAtCheck,
          missChoice,
          lastSkipChoice, skipBeforeCheck>>

\* the download flows: the one of this window's activation, and one of
\* another editor window sharing the storage root
Flows == {"session", "other"}

Snapshot == [ known |-> latestKnownVersion, skipped |-> latestSkippedVersion,
              auto |-> autoDownload, root |-> rootExists, entries |-> entries,
              binaries |-> binaries ]

DlIdle == [ pc |-> "idle", isUpdate |-> FALSE, latestVersion |-> NoVersion,
            assets |-> {}, result |-> NULL, fetchReturned |-> FALSE,
            viaExisting |-> FALSE, foundExisting |-> FALSE,
            reloadChoice |-> "none" ]

ReaperOff == [ phase |-> "off", todo |-> {}, keep |-> NULL, awaited |-> FALSE,
               failed |-> NULL ]

BgOff == [ pc |-> "off", latestVersion |-> NoVersion, skippedVersion |-> NoVersion,
           outcome |-> "" ]


\* ------------------------------------------------------------ initial state
\* A fresh installation: nothing persisted, no storage root, the setting
\* autoDownload at its default (false).
SelectorOff == [ version |-> NoVersion, name |-> NULL, called |-> FALSE ]

\* everything but the platform: nothing stored, nothing on disk, activate
\* about to run
Fresh ==
    /\ latestKnownVersion = NoVersion
    /\ latestSkippedVersion = NoVersion
    /\ autoDownload = FALSE
    /\ rootExists = FALSE
    /\ entries = {}
    /\ binaries = {}
    /\ pc = "activate"
    /\ userDefinedPath = NULL
    /\ pathFromWhich = NULL
    /\ shouldAutoDownload = FALSE
    /\ cachedVersion = NoVersion
    /\ serverPath = NULL
    /\ branch = "none"
    /\ client = NULL
    /\ bg = BgOff
    /\ dl = [f \in Flows |-> DlIdle]
    /\ reaper = [f \in Flows |-> ReaperOff]
    /\ prompts = {}
    /\ errorMessages = {}
    /\ consoleErrors = {}
    /\ network = {}
    /\ reloadCommand = FALSE
    /\ settingsPrompt = "none"
    /\ snap = Snapshot
    /\ existedAtCheck = FALSE
    /\ missChoice = "none"
    /\ lastSkipChoice = NoVersion
    /\ skipBeforeCheck = NoVersion

Init ==
    /\ Fresh
    /\ platform \in Platforms
    /\ selector = SelectorOff

\* ------------------------------------------------------------ registerSettingsWatcher
\* lines 156-164: enableAutoUpdates has changed the autoDownload setting
\* and the watcher shows its message.  The watcher is registered at line
\* 39, once getLanguageServerPath has returned: the change made by the
\* cache-miss prompt (line 233) comes before that and shows nothing, the
\* one made by the update prompt (line 314) comes after it.
SettingChanged == "shown"

\* lines 166-170: the answer to 'FlatBuffers configuration has changed';
\* "" is the message dismissed, for which the callback does nothing
SettingsPromptAnswer(choice) ==
    /\ settingsPrompt = "shown"
    /\ IF choice = "Reload Window"
       THEN /\ settingsPrompt' = choice
            /\ reloadCommand' = TRUE
       ELSE UNCHANGED <<settingsPrompt, reloadCommand>>
    /\ UNCHANGED <<persistent, env, pc, inputs, serverPath, branch, client, bg, dl,
                   reaper, prompts, errorMessages, consoleErrors, network, hist>>

\* ------------------------------------------------------------ environment
\* The user edits the setting languageServer.autoDownload between sessions.
UserSetsAutoDownload ==
    /\ pc = "activate"
    /\ autoDownload' = ~autoDownload
    /\ UNCHANGED <<store, disk, env, settingsPrompt, pc, inputs, serverPath, branch,
                   client, bg, dl, reaper, ui, hist>>

\* The window is reloaded or reopened: the extension host ends, with every
\* flow still running in it, and activate runs again.  Only the persisted
\* state survives.
Reload ==
    /\ pc \in {"running", "inert", "crashed", "deactivated"}
    /\ pc' = "activate"
    /\ userDefinedPath' = NULL
    /\ pathFromWhich' = NULL
    /\ shouldAutoDownload' = FALSE
    /\ cachedVersion' = NoVersion
    /\ serverPath' = NULL
    /\ branch' = "none"
    /\ client' = NULL
    /\ bg' = BgOff
    /\ dl' = [f \in Flows |-> DlIdle]
    /\ reaper' = [f \in Flows |-> ReaperOff]
    /\ prompts' = {}
    /\ errorMessages' = {}
    /\ consoleErrors' = {}
    /\ network' = {}
    /\ reloadCommand' = FALSE
    /\ settingsPrompt' = "none"
    /\ existedAtCheck' = FALSE
    /\ missChoice' = "none"
    /\ skipBeforeCheck' = NoVersion
    /\ UNCHANGED <<persistent, env, snap, lastSkipChoice>>

\* ------------------------------------------------------------ downloadLanguageServer, entry
\* The call of downloadLanguageServer(context, isUpdate): it runs up to its
\* first await, fs.ensureDir(storagePath).
CallDownload(f, isUpdate) ==
    [dl EXCEPT ![f] = [DlIdle EXCEPT !.pc = "ensureDir", !.isUpdate = isUpdate]]

\* ------------------------------------------------------------ getLanguageServerPath
\* deviation: a configured path counts only when it exists
ConfiguredPathSet_ChecksExistence(p) == p # NULL /\ p # <<"/missing/server">>

\* line 186: if (userDefinedPath), the truthiness of the setting's value
ConfiguredPathSet(p) == p # NULL

\* lines 184-189: the configured path, returned as it is
GlspUserDefined(p) ==
    /\ pc = "activate"
    /\ userDefinedPath' = p
    /\ snap' = Snapshot
    /\ IF ConfiguredPathSet(p)
       THEN /\ serverPath' = p
            /\ branch' = "config"
            /\ pc' = "returned"
       ELSE /\ pc' = "which"
            /\ UNCHANGED <<serverPath, branch>>
    /\ UNCHANGED <<persistent, env, settingsPrompt, pathFromWhich,
                   shouldAutoDownload, cachedVersion, client, bg, dl, reaper, ui,
                   existedAtCheck, missChoice, lastSkipChoice, skipBeforeCheck>>

\* lines 191-202: the search path; when not found, the setting and the
\* cached version record are read
GlspWhich(found) ==
    /\ pc = "which"
    /\ pathFromWhich' = found
    /\ IF found # NULL
       THEN /\ serverPath' = found
            /\ branch' = "which"
            /\ pc' = "returned"
            /\ UNCHANGED <<shouldAutoDownload, cachedVersion>>
       ELSE /\ shouldAutoDownload' = autoDownload
            /\ cachedVersion' = latestKnownVersion
            /\ pc' = "cache"
            /\ UNCHANGED <<serverPath, branch>>
    /\ UNCHANGED <<persistent, env, settingsPrompt, userDefinedPath, client, bg, dl,
                   reaper, ui, hist>>

\* deviation: the version record alone decides
CacheUsable_TrustsRecord == cachedVersion # NoVersion

\* lines 205-210: the cached version record is set and its binary is on disk
CacheUsable == cachedVersion # NoVersion /\ cachedVersion \in binaries

\* deviation: the update check is awaited before the path is returned
GlspCacheHit_Awaits ==
    /\ bg' = [BgOff EXCEPT !.pc = "release"]
    /\ network' = network \cup {"release"}
    /\ branch' = "cache"
    /\ pc' = "awaiting the update check"
    /\ UNCHANGED <<serverPath, dl, prompts>>

\* lines 211-214: checkForUpdatesInBackground is called without await: it
\* runs up to its request to the release index, and the path is returned
GlspCacheHit ==
    /\ bg' = [BgOff EXCEPT !.pc = "release"]
    /\ network' = network \cup {"release"}
    /\ serverPath' = BinaryPath(platform, cachedVersion)
    /\ branch' = "cache"
    /\ pc' = "returned"
    /\ UNCHANGED <<dl, prompts>>

\* deviation: the prompt is shown whatever the setting
GlspCacheMiss_AlwaysPrompts ==
    /\ branch' = "miss"
    /\ prompts' = prompts \cup {"not found, download?"}
    /\ pc' = "prompt"
    /\ UNCHANGED <<dl, bg, network, serverPath>>

\* lines 218-231: the initial download, at once when autoDownload is set,
\* else after the prompt
GlspCacheMiss ==
    /\ branch' = "miss"
    /\ IF shouldAutoDownload
       THEN /\ dl' = CallDownload("session", FALSE)
            /\ pc' = "downloading"
            /\ UNCHANGED prompts
       ELSE /\ prompts' = prompts \cup {"not found, download?"}
            /\ pc' = "prompt"
            /\ UNCHANGED dl
    /\ UNCHANGED <<bg, network, serverPath>>

\* lines 204-231: the cache branch, and on a miss the initial download
GlspCacheCheck ==
    /\ pc = "cache"
    /\ existedAtCheck' = (cachedVersion \in binaries)
    /\ IF CacheUsable THEN GlspCacheHit ELSE GlspCacheMiss
    /\ UNCHANGED <<persistent, env, settingsPrompt, inputs, client, reaper,
                   errorMessages, consoleErrors, reloadCommand, snap, missChoice,
                   lastSkipChoice, skipBeforeCheck>>

\* lines 233-244: the answer to 'FlatBuffers language server was not found.
\* Download it?'; "" is the prompt dismissed
GlspPromptAnswer(choice) ==
    /\ pc = "prompt"
    /\ missChoice' = IF choice = "" THEN "dismissed" ELSE choice
    /\ CASE choice = "Download & Auto-Update" ->
                /\ autoDownload' = TRUE
                /\ dl' = CallDownload("session", FALSE)
                /\ pc' = "downloading"
                /\ UNCHANGED serverPath
         [] choice = "Download Once" ->
                /\ dl' = CallDownload("session", FALSE)
                /\ pc' = "downloading"
                /\ UNCHANGED <<autoDownload, serverPath>>
         [] OTHER ->
                /\ serverPath' = NULL
                /\ pc' = "returned"
                /\ UNCHANGED <<autoDownload, dl>>
    /\ UNCHANGED <<store, disk, env, settingsPrompt, inputs, branch, client, bg,
                   reaper, ui, snap, existedAtCheck, lastSkipChoice,
                   skipBeforeCheck>>

\* deviation: the update check is started as well once the initial
\* download has returned a path
GlspDownloadReturn_ThenChecks ==
    /\ pc = "downloading"
    /\ dl["session"].pc \in {"done", "threw"}
    /\ IF dl["session"].pc = "threw"
       THEN /\ pc' = "crashed"
            /\ UNCHANGED <<serverPath, bg, network>>
       ELSE /\ serverPath' = dl["session"].result
            /\ pc' = "returned"
            /\ bg' = [BgOff EXCEPT !.pc = "release"]
            /\ network' = network \cup {"release"}
    /\ UNCHANGED <<persistent, env, settingsPrompt, inputs, branch, client, dl,
                   reaper, prompts, errorMessages, consoleErrors, reloadCommand,
                   hist>>

\* lines 221, 235, 238: return await downloadLanguageServer(context); an
\* exception of downloadLanguageServer rejects getLanguageServerPath and
\* with it activate
GlspDownloadReturn ==
    /\ pc = "downloading"
    /\ dl["session"].pc \in {"done", "threw"}
    /\ IF dl["session"].pc = "threw"
       THEN /\ pc' = "crashed"
            /\ UNCHANGED serverPath
       ELSE /\ serverPath' = dl["session"].result
            /\ pc' = "returned"
    /\ UNCHANGED <<persistent, env, settingsPrompt, inputs, branch, client, bg, dl,
                   reaper, ui, hist>>

\* line 53
serverArgs == <<>>

\* deviation: the session is started whatever getLanguageServerPath returned
ShouldStart_Always(path) == TRUE

\* line 41: if (!serverPath) { ... return; }
ShouldStart(path) == path # NULL

\* activate, lines 36-76: without a path an error message and nothing else;
\* with one the client is created on it and started
ActivateFinish ==
    /\ pc = "returned"
    /\ IF ~ShouldStart(serverPath)
       THEN /\ errorMessages' = errorMessages \cup
                   {<<"Could not find or download the FlatBuffers language server", "">>}
            /\ pc' = "inert"
            /\ UNCHANGED client
       ELSE /\ client' = [command |-> serverPath, args |-> serverArgs,
                          state |-> "started"]
            /\ pc' = "running"
            /\ UNCHANGED errorMessages
    /\ UNCHANGED <<persistent, env, settingsPrompt, inputs, serverPath, branch, bg,
                   dl, reaper, prompts, consoleErrors, network, reloadCommand, hist>>

\* lines 78-89: the editor shuts the extension down.  deactivate returns
\* undefined without a client and client.stop() with one; the extension
\* host then ends with every flow still running in it.
Deactivate ==
    /\ pc \in {"running", "inert"}
    /\ pc' = "deactivated"
    /\ client' = IF client = NULL THEN NULL ELSE [client EXCEPT !.state = "stopped"]
    /\ userDefinedPath' = NULL
    /\ pathFromWhich' = NULL
    /\ shouldAutoDownload' = FALSE
    /\ cachedVersion' = NoVersion
    /\ branch' = "none"
    /\ bg' = BgOff
    /\ dl' = [f \in Flows |-> DlIdle]
    /\ reaper' = [f \in Flows |-> ReaperOff]
    /\ prompts' = {}
    /\ errorMessages' = {}
    /\ consoleErrors' = {}
    /\ network' = {}
    /\ reloadCommand' = FALSE
    /\ settingsPrompt' = "none"
    /\ existedAtCheck' = FALSE
    /\ missChoice' = "none"
    /\ skipBeforeCheck' = NoVersion
    /\ UNCHANGED <<persistent, env, serverPath, snap, lastSkipChoice>>

\* ------------------------------------------------------------ cleanupOldVersions
\* The call of cleanupOldVersions(storagePath, keep): it runs up to its
\* first await, fs.readdir(storagePath).
CallReaper(f, keep, awaited) ==
    [reaper EXCEPT ![f] = [phase |-> "readdir", todo |-> {}, keep |-> keep,
                           awaited |-> awaited, failed |-> NULL]]

\* line 448-450: readdir answers; the entries the loop will remove
ReaperReaddir(f) ==
    /\ reaper[f].phase = "readdir"
    /\ LET todo == { e \in entries :
                        startsWith(e, VERSION_PREFIX) /\ e # reaper[f].keep }
       IN  reaper' = [reaper EXCEPT ![f].todo = todo,
                                    ![f].phase = IF todo = {} THEN "done" ELSE "loop"]
    /\ UNCHANGED <<persistent, env, settingsPrompt, pc, inputs, serverPath, branch,
                   client, bg, dl, ui, hist>>

\* lines 449-457: one round of the loop, fs.remove of one entry; a removal
\* that throws leaves the loop for the catch, with the entries not yet
\* visited (and the one that failed) still in todo
ReaperRemove(f, e, ok) ==
    /\ reaper[f].phase = "loop"
    /\ e \in reaper[f].todo
    /\ IF ok
       THEN /\ entries' = entries \ {e}
            /\ binaries' = { v \in binaries : VersionDirName(v) # e }
            /\ reaper' = [reaper EXCEPT
                             ![f].todo = @ \ {e},
                             ![f].phase = IF reaper[f].todo = {e} THEN "done" ELSE "loop"]
            /\ UNCHANGED consoleErrors
       ELSE /\ consoleErrors' = consoleErrors \cup {"Error cleaning up old versions"}
            /\ reaper' = [reaper EXCEPT ![f].failed = e, ![f].phase = "done"]
            /\ UNCHANGED <<entries, binaries>>
    /\ UNCHANGED <<store, autoDownload, rootExists, env, settingsPrompt, pc, inputs,
                   serverPath, branch, client, bg, dl, prompts, errorMessages,
                   network, reloadCommand, hist>>

\* ------------------------------------------------------------ downloadLanguageServer
\* `Failed to ${isUpdate ? "update" : "download"} language server`
FailText(isUpdate) ==
    IF isUpdate THEN "Failed to update language server"
                ELSE "Failed to download language server"

\* lines 422-426: the catch of downloadLanguageServer, d being the flows
\* as the step that threw has left them
CaughtIn(d, f, cause) ==
    /\ errorMessages' = errorMessages \cup {<<FailText(dl[f].isUpdate), cause>>}
    /\ dl' = [d EXCEPT ![f].pc = "done", ![f].result = NULL]

Caught(f, cause) == CaughtIn(dl, f, cause)

\* the same catch, reached from inside the withProgress callback
CaughtInFetch(f, cause) ==
    /\ errorMessages' = errorMessages \cup {<<FailText(dl[f].isUpdate), cause>>}
    /\ dl' = [dl EXCEPT ![f].pc = "done", ![f].result = NULL,
                        ![f].fetchReturned = TRUE]

\* line 337: await fs.ensureDir(storagePath), before the try
DlEnsureDir(f, ok) ==
    /\ dl[f].pc = "ensureDir"
    /\ ok \/ ~rootExists
    /\ IF ok
       THEN /\ rootExists' = TRUE
            /\ dl' = [dl EXCEPT ![f].pc = "release"]
            /\ network' = network \cup {"release"}
       ELSE /\ dl' = [dl EXCEPT ![f].pc = "threw"]
            /\ UNCHANGED <<rootExists, network>>
    /\ UNCHANGED <<store, autoDownload, entries, binaries, env, settingsPrompt, pc,
                   inputs, serverPath, branch, client, bg, reaper, prompts,
                   errorMessages, consoleErrors, reloadCommand, hist>>

\* lines 340-345: getLatestRelease answers with the tag that is the latest
\* now and its assets (complete, or lacking this platform's asset), or fails
DlRelease(f, ok, remote, complete) ==
    /\ dl[f].pc = "release"
    /\ IF ok
       THEN /\ dl' = [dl EXCEPT
                        ![f].pc = "pathExists",
                        ![f].latestVersion = remote,
                        ![f].assets = IF complete THEN FullAssets(remote)
                                      ELSE FullAssets(remote) \
                                             {getAssetName(platform, remote)}]
            /\ UNCHANGED errorMessages
       ELSE Caught(f, "release lookup failed")
    /\ UNCHANGED <<persistent, env, settingsPrompt, pc, inputs, serverPath, branch,
                   client, bg, reaper, prompts, consoleErrors, network,
                   reloadCommand, hist>>

\* deviation: the installed binary is not looked for
AlreadyInstalled_Never(v) == FALSE

\* line 347: await fs.pathExists(binaryPath)
AlreadyInstalled(v) == v \in binaries

\* lines 347-365: the binary is there already (chmod, reaper not awaited,
\* return), or the asset is selected and its download requested
DlPathExists(f, chmodOk) ==
    /\ dl[f].pc = "pathExists"
    /\ LET v      == dl[f].latestVersion
           name   == getAssetName(platform, v)
           marked == [dl EXCEPT ![f].foundExisting = (v \in binaries)]
       IN  IF AlreadyInstalled(v)
           THEN IF platform[1] # "win32" /\ ~chmodOk
                THEN /\ CaughtIn(marked, f, "chmod failed")
                     /\ UNCHANGED <<reaper, network>>
                ELSE /\ reaper' = CallReaper(f, VersionDirName(v), FALSE)
                     /\ dl' = [marked EXCEPT ![f].pc = "done",
                                             ![f].result = BinaryPath(platform, v),
                                             ![f].viaExisting = TRUE]
                     /\ UNCHANGED <<errorMessages, network>>
           ELSE IF name = NULL
                THEN /\ errorMessages' = errorMessages \cup
                            {<<"Unsupported platform", platform[1]>>}
                     /\ dl' = [marked EXCEPT ![f].pc = "done", ![f].result = NULL]
                     /\ UNCHANGED <<reaper, network>>
                ELSE IF name \notin dl[f].assets
                     THEN /\ CaughtIn(marked, f,
                                      "Could not find a release asset for your platform")
                          /\ UNCHANGED <<reaper, network>>
                     ELSE /\ dl' = [marked EXCEPT ![f].pc = "fetch"]
                          /\ network' = network \cup {"download"}
                          /\ UNCHANGED <<reaper, errorMessages>>
    /\ UNCHANGED <<persistent, env, settingsPrompt, pc, inputs, serverPath, branch,
                   client, bg, prompts, consoleErrors, reloadCommand, hist>>

\* lines 375-383: the archive is streamed to tempArchivePath in the storage
\* root; the request can fail, and the stream can break with the file begun
DlFetch(f, outcome) ==
    /\ dl[f].pc = "fetch"
    /\ LET temp == getAssetName(platform, dl[f].latestVersion)
       IN  CASE outcome = "ok" ->
                    /\ entries' = entries \cup {temp}
                    /\ dl' = [dl EXCEPT ![f].pc = "extract"]
                    /\ UNCHANGED errorMessages
             [] outcome = "request failed" ->
                    /\ CaughtInFetch(f, "download request failed")
                    /\ UNCHANGED entries
             [] OTHER ->
                    /\ entries' = entries \cup {temp}
                    /\ CaughtInFetch(f, "download stream interrupted")
    /\ UNCHANGED <<store, autoDownload, rootExists, binaries, env, settingsPrompt,
                   pc, inputs, serverPath, branch, client, bg, reaper, prompts,
                   consoleErrors, network, reloadCommand, hist>>

\* lines 385-396: ensureDir(versionDir), extraction by the archive's
\* extension, removal of the archive; an archive that is no longer at
\* tempArchivePath cannot be extracted
DlExtract(f, outcome) ==
    /\ dl[f].pc = "extract"
    /\ LET v    == dl[f].latestVersion
           temp == getAssetName(platform, v)
           dir  == VersionDirName(v)
       IN  CASE outcome = "ok" /\ temp \in entries ->
                    /\ entries' = (entries \cup {dir}) \ {temp}
                    /\ binaries' = binaries \cup {v}
                    /\ dl' = [dl EXCEPT ![f].pc = "chmod", ![f].fetchReturned = TRUE]
                    /\ UNCHANGED errorMessages
             [] outcome = "mkdir failed" ->
                    /\ dir \notin entries
                    /\ CaughtInFetch(f, "cannot create the version directory")
                    /\ UNCHANGED <<entries, binaries>>
             [] OTHER ->
                    /\ entries' = entries \cup {dir}
                    /\ CaughtInFetch(f, IF temp \in entries THEN "extraction failed"
                                        ELSE "archive missing")
                    /\ UNCHANGED binaries
    /\ UNCHANGED <<store, autoDownload, rootExists, env, settingsPrompt, pc, inputs,
                   serverPath, branch, client, bg, reaper, prompts, consoleErrors,
                   network, reloadCommand, hist>>

\* deviation: the version is recorded before the binary is made executable
DlChmod_RecordsFirst(f, ok) ==
    /\ dl[f].pc = "chmod"
    /\ latestKnownVersion' = dl[f].latestVersion
    /\ IF platform[1] = "win32" \/ ok
       THEN /\ dl' = [dl EXCEPT ![f].pc = "persist"]
            /\ UNCHANGED errorMessages
       ELSE Caught(f, "chmod failed")
    /\ UNCHANGED <<latestSkippedVersion, autoDownload, disk, env, settingsPrompt, pc,
                   inputs, serverPath, branch, client, bg, reaper, prompts,
                   consoleErrors, network, reloadCommand, hist>>

\* lines 399-401: chmod of the extracted binary, not on win32
DlChmod(f, ok) ==
    /\ dl[f].pc = "chmod"
    /\ IF platform[1] = "win32" \/ ok
       THEN /\ dl' = [dl EXCEPT ![f].pc = "persist"]
            /\ UNCHANGED errorMessages
       ELSE Caught(f, "chmod failed")
    /\ UNCHANGED <<persistent, env, settingsPrompt, pc, inputs, serverPath, branch,
                   client, bg, reaper, prompts, consoleErrors, network,
                   reloadCommand, hist>>

\* lines 403-419: the version is recorded; an update then asks to reload,
\* a first download goes on to the reaper
DlPersist(f, ok) ==
    /\ dl[f].pc = "persist"
    /\ IF ok
       THEN /\ latestKnownVersion' = dl[f].latestVersion
            /\ IF dl[f].isUpdate
               THEN /\ prompts' = prompts \cup {"updated, reload?"}
                    /\ dl' = [dl EXCEPT ![f].pc = "reloadPrompt"]
                    /\ UNCHANGED reaper
               ELSE /\ reaper' = CallReaper(f, VersionDirName(dl[f].latestVersion), TRUE)
                    /\ dl' = [dl EXCEPT ![f].pc = "cleanup"]
                    /\ UNCHANGED prompts
            /\ UNCHANGED errorMessages
       ELSE /\ Caught(f, "cannot record the version")
            /\ UNCHANGED <<latestKnownVersion, prompts, reaper>>
    /\ UNCHANGED <<latestSkippedVersion, autoDownload, disk, env, settingsPrompt, pc,
                   inputs, serverPath, branch, client, bg, consoleErrors, network,
                   reloadCommand, hist>>

\* deviation: the window is reloaded whatever the answer
DlReloadAnswer_Always(f, choice) ==
    /\ dl[f].pc = "reloadPrompt"
    /\ reloadCommand' = TRUE
    /\ reaper' = CallReaper(f, VersionDirName(dl[f].latestVersion), TRUE)
    /\ dl' = [dl EXCEPT ![f].pc = "cleanup",
                        ![f].reloadChoice = IF choice = "" THEN "dismissed" ELSE choice]
    /\ UNCHANGED <<persistent, env, settingsPrompt, pc, inputs, serverPath, branch,
                   client, bg, prompts, errorMessages, consoleErrors, network, hist>>

\* lines 407-419: the answer to 'Reload to use the latest version'; "" is
\* the prompt dismissed
DlReloadAnswer(f, choice) ==
    /\ dl[f].pc = "reloadPrompt"
    /\ reloadCommand' = (reloadCommand \/ choice = "Reload Now")
    /\ reaper' = CallReaper(f, VersionDirName(dl[f].latestVersion), TRUE)
    /\ dl' = [dl EXCEPT ![f].pc = "cleanup",
                        ![f].reloadChoice = IF choice = "" THEN "dismissed" ELSE choice]
    /\ UNCHANGED <<persistent, env, settingsPrompt, pc, inputs, serverPath, branch,
                   client, bg, prompts, errorMessages, consoleErrors, network, hist>>

\* lines 419-421: the awaited reaper has ended; the path is returned
DlCleanupDone(f) ==
    /\ dl[f].pc = "cleanup"
    /\ reaper[f].phase = "done"
    /\ dl' = [dl EXCEPT ![f].pc = "done",
                        ![f].result = BinaryPath(platform, dl[f].latestVersion)]
    /\ UNCHANGED <<persistent, env, settingsPrompt, pc, inputs, serverPath, branch,
                   client, bg, reaper, ui, hist>>

\* ------------------------------------------------------------ checkForUpdatesInBackground
\* deviation: the skipped version is never recognised
VersionSkipped_Never(latest, skipped) == FALSE

\* line 300: latestVersion === skippedVersion
VersionSkipped(latest, skipped) == latest = skipped

\* lines 293-325: the release index answers the check; the comparison with
\* the cached and the skipped version; or the request fails (line 326).
\* remote is the tag that is the latest when the index answers.  The answer
\* arrives in a later turn of the event loop than the one in which
\* getLanguageServerPath returned: activate, which has nothing to await
\* between lines 39 and 75, has run to its end by then.
BgRelease(ok, remote) ==
    /\ bg.pc = "release"
    /\ pc = "running"
    /\ IF ~ok
       THEN /\ bg' = [bg EXCEPT !.pc = "done", !.outcome = "error"]
            /\ consoleErrors' = consoleErrors \cup
                   {"Failed to check for updates in the background"}
            /\ UNCHANGED <<dl, prompts, skipBeforeCheck>>
       ELSE /\ skipBeforeCheck' = lastSkipChoice
            /\ UNCHANGED consoleErrors
            /\ LET latest  == remote
                   skipped == latestSkippedVersion
                   seen    == [bg EXCEPT !.latestVersion = latest,
                                         !.skippedVersion = skipped]
               IN  IF latest # cachedVersion
                   THEN IF shouldAutoDownload
                        THEN /\ dl' = CallDownload("session", TRUE)
                             /\ bg' = [seen EXCEPT !.pc = "downloading", !.outcome = "auto"]
                             /\ UNCHANGED prompts
                        ELSE IF VersionSkipped(latest, skipped)
                             THEN /\ bg' = [seen EXCEPT !.pc = "done", !.outcome = "skipped"]
                                  /\ UNCHANGED <<dl, prompts>>
                             ELSE /\ prompts' = prompts \cup {"new version available"}
                                  /\ bg' = [seen EXCEPT !.pc = "prompt", !.outcome = "prompt"]
                                  /\ UNCHANGED dl
                   ELSE /\ bg' = [seen EXCEPT !.pc = "done", !.outcome = "up to date"]
                        /\ UNCHANGED <<dl, prompts>>
    /\ UNCHANGED <<persistent, env, settingsPrompt, pc, inputs, serverPath, branch,
                   client, reaper, errorMessages, network, reloadCommand, snap,
                   existedAtCheck, missChoice, lastSkipChoice>>

\* lines 313-321: the answer to 'A new version ... is available'; "" is the
\* prompt dismissed
BgPromptAnswer(choice) ==
    /\ bg.pc = "prompt"
    /\ CASE choice = "Download & Auto-Update" ->
                /\ autoDownload' = TRUE
                /\ settingsPrompt' = SettingChanged
                /\ dl' = CallDownload("session", TRUE)
                /\ bg' = [bg EXCEPT !.pc = "downloading"]
                /\ UNCHANGED <<latestSkippedVersion, lastSkipChoice>>
         [] choice = "Download" ->
                /\ dl' = CallDownload("session", TRUE)
                /\ bg' = [bg EXCEPT !.pc = "downloading"]
                /\ UNCHANGED <<autoDownload, settingsPrompt, latestSkippedVersion,
                               lastSkipChoice>>
         [] choice = "Skip This Version" ->
                /\ latestSkippedVersion' = bg.latestVersion
                /\ lastSkipChoice' = bg.latestVersion
                /\ bg' = [bg EXCEPT !.pc = "done"]
                /\ UNCHANGED <<autoDownload, settingsPrompt, dl>>
         [] OTHER ->
                /\ bg' = [bg EXCEPT !.pc = "done"]
                /\ UNCHANGED <<autoDownload, settingsPrompt, latestSkippedVersion,
                               lastSkipChoice, dl>>
    /\ UNCHANGED <<latestKnownVersion, disk, env, pc, inputs, serverPath, branch,
                   client, reaper, ui, snap, existedAtCheck, missChoice,
                   skipBeforeCheck>>

\* lines 299, 315, 317 and 326: downloadLanguageServer(context, true) has
\* ended; what it threw is caught and logged
BgDownloadReturn ==
    /\ bg.pc = "downloading"
    /\ dl["session"].pc \in {"done", "threw"}
    /\ bg' = [bg EXCEPT !.pc = "done"]
    /\ consoleErrors' = IF dl["session"].pc = "threw"
                        THEN consoleErrors \cup
                               {"Failed to check for updates in the background"}
                        ELSE consoleErrors
    /\ UNCHANGED <<persistent, env, settingsPrompt, pc, inputs, serverPath, branch,
                   client, dl, reaper, prompts, errorMessages, network,
                   reloadCommand, hist>>

\* ------------------------------------------------------------ specification
DownloadStep(f) ==
    \/ \E ok \in BOOLEAN : DlEnsureDir(f, ok)
    \/ \E ok \in BOOLEAN, v \in Versions, complete \in BOOLEAN :
          DlRelease(f, ok, v, complete)
    \/ \E chmodOk \in BOOLEAN : DlPathExists(f, chmodOk)
    \/ \E o \in {"ok", "request failed", "stream interrupted"} : DlFetch(f, o)
    \/ \E o \in {"ok", "mkdir failed", "extract failed"} : DlExtract(f, o)
    \/ \E ok \in BOOLEAN : DlChmod(f, ok)
    \/ \E ok \in BOOLEAN : DlPersist(f, ok)
    \/ \E c \in {"Reload Now", ""} : DlReloadAnswer(f, c)
    \/ DlCleanupDone(f)
    \/ ReaperReaddir(f)
    \/ \E e \in reaper[f].todo, ok \in BOOLEAN : ReaperRemove(f, e, ok)

Next ==
    \/ UserSetsAutoDownload
    \/ Reload
    \/ \E p \in UserPaths : GlspUserDefined(p)
    \/ \E w \in WhichResults : GlspWhich(w)
    \/ GlspCacheCheck
    \/ \E c \in {"Download & Auto-Update", "Download Once", ""} : GlspPromptAnswer(c)
    \/ GlspDownloadReturn
    \/ ActivateFinish
    \/ Deactivate
    \/ \E ok \in BOOLEAN, v \in Versions : BgRelease(ok, v)
    \/ \E c \in {"Download & Auto-Update", "Download", "Skip This Version", ""} :
          BgPromptAnswer(c)
    \/ BgDownloadReturn
    \/ \E c \in {"Reload Window", ""} : SettingsPromptAnswer(c)
    \/ \E f \in Flows : DownloadStep(f)

Spec == Init /\ [][Next]_vars

\* ------------------------------------------------------------ getAssetName alone
\* the values process.platform and process.arch take on the hosts of the
\* editor
OsNames == {"aix", "darwin", "freebsd", "linux", "openbsd", "sunos", "win32"}
ArchNames == {"arm", "arm64", "ia32", "ppc64", "riscv64", "x64"}

InitSelector ==
    /\ Fresh
    /\ platform \in OsNames \X ArchNames
    /\ selector \in [ version : Versions, name : {NULL}, called : {FALSE} ]

\* lines 251-282: getAssetName(version) is called and returns
SelectAsset ==
    /\ ~selector.called
    /\ selector.version # NoVersion
    /\ selector' = [selector EXCEPT !.name = getAssetName(platform, selector.version),
                                    !.called = TRUE]
    /\ UNCHANGED <<persistent, platform, settingsPrompt, pc, inputs, serverPath,
                   branch, client, bg, dl, reaper, ui, hist>>

NextSelector == SelectAsset

SpecSelector == InitSelector /\ [][NextSelector]_vars

\* ------------------------------------------------------------ two windows
\* Two editor windows share the storage root and the global state, and
\* each has called downloadLanguageServer: flow "session" is this window's,
\* flow "other" the other window's.  What both scenarios have in common:
\* auto-download is on, nothing was skipped, nothing shown yet.
ConcCommon ==
    /\ latestSkippedVersion = NoVersion
    /\ autoDownload = TRUE
    /\ selector = SelectorOff
    /\ userDefinedPath = NULL
    /\ pathFromWhich = NULL
    /\ shouldAutoDownload = TRUE
    /\ reaper = [f \in Flows |-> ReaperOff]
    /\ prompts = {}
    /\ errorMessages = {}
    /\ consoleErrors = {}
    /\ reloadCommand = FALSE
    /\ settingsPrompt = "none"
    /\ missChoice = "none"
    /\ lastSkipChoice = NoVersion
    /\ skipBeforeCheck = NoVersion
    /\ snap = Snapshot

\* line 221: both windows were opened on a fresh installation and are in
\* the download of a cache miss
BothMiss ==
    /\ platform \in Platforms
    /\ latestKnownVersion = NoVersion
    /\ rootExists = FALSE
    /\ entries = {}
    /\ binaries = {}
    /\ pc = "downloading"
    /\ cachedVersion = NoVersion
    /\ serverPath = NULL
    /\ branch = "miss"
    /\ client = NULL
    /\ bg = BgOff
    /\ network = {}
    /\ existedAtCheck = FALSE
    /\ dl = [f \in Flows |-> [DlIdle EXCEPT !.pc = "ensureDir", !.isUpdate = FALSE]]

\* line 299: both windows run on the cached version c, and the update check
\* of each has found another version and started the install
BothUpdate(c) ==
    /\ platform \in { p \in Platforms : getAssetName(p, c) # NULL }
    /\ latestKnownVersion = c
    /\ rootExists = TRUE
    /\ entries = {VersionDirName(c)}
    /\ binaries = {c}
    /\ pc = "running"
    /\ cachedVersion = c
    /\ serverPath = BinaryPath(platform, c)
    /\ branch = "cache"
    /\ client = [command |-> BinaryPath(platform, c), args |-> serverArgs,
                 state |-> "started"]
    /\ bg \in [ pc : {"downloading"}, latestVersion : Versions \ {c},
                 skippedVersion : {NoVersion}, outcome : {"auto"} ]
    /\ network = {"release"}
    /\ existedAtCheck = TRUE
    /\ dl = [f \in Flows |-> [DlIdle EXCEPT !.pc = "ensureDir", !.isUpdate = TRUE]]

InitConc ==
    /\ BothMiss \/ \E c \in Versions : BothUpdate(c)
    /\ ConcCommon

\* the steps of the two flows in any order, and the return to the callers
\* of this window's flow
NextConc ==
    \/ \E f \in Flows : DownloadStep(f)
    \/ GlspDownloadReturn
    \/ ActivateFinish
    \/ BgDownloadReturn

SpecConc == InitConc /\ [][NextConc]_vars

\* ------------------------------------------------------------ properties
\* getLanguageServerPath has returned (activate may have gone on)
Returned == pc \in {"returned", "running", "inert"}

\* nothing was requested, asked or started, and nothing persisted changed
\* since getLanguageServerPath began
Quiet ==
    /\ network = {}
    /\ prompts = {}
    /\ bg.pc = "off"
    /\ \A f \in Flows : dl[f].pc = "idle" /\ reaper[f].phase = "off"
    /\ Snapshot = snap

\* C1: once getLanguageServerPath has returned, a configured path is the
\* result exactly as configured (existing or not), else a path found on the
\* search path is the result; in both cases no request was issued, no prompt
\* shown, no update check or download started, the cache branch was never
\* entered and the version store, the setting and the storage root are as
\* they were.
C1_ConfiguredThenSearchPath ==
    Returned =>
        /\ userDefinedPath # NULL =>
              serverPath = userDefinedPath /\ branch = "config" /\ Quiet
        /\ (userDefinedPath = NULL /\ pathFromWhich # NULL) =>
              serverPath = pathFromWhich /\ branch = "which" /\ Quiet

\* a session runs on a configured path that does not exist, with a version
\* cached and installed from an earlier session
C1_Witness ==
    /\ pc = "running"
    /\ userDefinedPath = <<"/missing/server">>
    /\ client.command = <<"/missing/server">>
    /\ latestKnownVersion # NoVersion
    /\ latestKnownVersion \in binaries

\* C2: whenever the background update check exists (awaiting the release
\* index, awaiting the user's answer, installing, ended in any way),
\* getLanguageServerPath has already returned, and what it returned is the
\* cached binary's path: the check never holds the return and never changes
\* the result.
C2_CacheHitReturnsAtOnce ==
    (branch = "cache" \/ bg.pc # "off") =>
        /\ Returned
        /\ cachedVersion # NoVersion
        /\ serverPath = BinaryPath(platform, cachedVersion)
        /\ pc = "running" => client.command = BinaryPath(platform, cachedVersion)

\* the session runs on the cached binary while the check still awaits the
\* release index
C2_Witness ==
    /\ pc = "running"
    /\ bg.pc = "release"
    /\ client.command = BinaryPath(platform, cachedVersion)

\* C3 (as claimed): a download flow that returned the binary path of version
\* V leaves latestKnownVersion = V.
C3_ReturnedVersionIsRecorded ==
    \A f \in Flows :
        (dl[f].pc = "done" /\ dl[f].result # NULL) =>
            latestKnownVersion = dl[f].latestVersion

\* C4 (as claimed): once the download/extract step of a flow has returned,
\* by completing or by throwing, its temporary archive is not in the
\* storage root.
C4_NoArchiveLeftBehind ==
    \A f \in Flows :
        dl[f].fetchReturned =>
            getAssetName(platform, dl[f].latestVersion) \notin entries

\* C5 (as claimed): when a download flow has returned the binary path of
\* version V, the only version directory in the storage root is V's.
\* Stated for the runs in which no removal of the reaper failed.
C5_OnlyInstalledVersionRemains ==
    \A f \in Flows :
        ( /\ dl[f].pc = "done"
          /\ dl[f].result # NULL
          /\ "Error cleaning up old versions" \notin consoleErrors ) =>
            { v \in Versions : VersionDirName(v) \in entries } = {dl[f].latestVersion}

\* C6 (as claimed): a foreground download that did not yield a path ended
\* by returning null after an error message carrying the cause; activate
\* never sees an exception.
C6_ForegroundFailureIsHandled ==
    /\ pc # "crashed"
    /\ ( /\ branch = "miss"
         /\ dl["session"].pc \in {"done", "threw"}
         /\ dl["session"].result = NULL ) =>
            /\ dl["session"].pc = "done"
            /\ \E m \in errorMessages : m[2] # ""
            /\ Returned => serverPath = NULL

\* C7 (as claimed): in an activation resolved by a cache hit, whose only
\* flow is the background update flow, no error message is shown.
C7_BackgroundNeverShowsAnError ==
    bg.pc # "off" => errorMessages = {}

\* C8: the skipped version persisted is the one of the latest 'Skip This
\* Version' choice, in this session and in later ones; a check that compares
\* with auto-download disabled a remote version equal to it shows no update
\* prompt and starts no install; a check whose remote version differs from
\* it and from the cached version shows the prompt, or with auto-download
\* enabled starts the install without a prompt.
C8_SkipState ==
    /\ latestSkippedVersion = lastSkipChoice
    /\ bg.outcome \in {"auto", "skipped", "prompt", "up to date"} =>
        /\ ( /\ ~shouldAutoDownload
             /\ skipBeforeCheck # NoVersion
             /\ bg.latestVersion = skipBeforeCheck ) =>
                /\ bg.outcome \in {"skipped", "up to date"}
                /\ bg.pc = "done"
                /\ "new version available" \notin prompts
                /\ dl["session"].pc = "idle"
        /\ ( /\ bg.latestVersion # skipBeforeCheck
             /\ bg.latestVersion # cachedVersion ) =>
                IF shouldAutoDownload
                THEN /\ bg.outcome = "auto"
                     /\ "new version available" \notin prompts
                     /\ dl["session"].pc # "idle"
                ELSE /\ bg.outcome = "prompt"
                     /\ "new version available" \in prompts

\* a check of a later session meets the version skipped in an earlier one
C8_Witness ==
    /\ bg.outcome = "skipped"
    /\ bg.latestVersion = lastSkipChoice
    /\ bg.latestVersion # cachedVersion
    /\ pc = "running"

\* C9: a path is returned from the cache branch, and the background check
\* started, only when the binary of the cached version was on disk at the
\* check; with a cached version record whose binary is absent the flow is a
\* cache miss: no background check, and the auto-download or the prompt.
C9_CacheRecordNotTrustedAlone ==
    /\ branch = "cache" => (cachedVersion # NoVersion /\ existedAtCheck)
    /\ bg.pc # "off" => existedAtCheck
    /\ ( /\ branch \in {"cache", "miss"}
         /\ cachedVersion # NoVersion
         /\ ~existedAtCheck ) =>
            /\ branch = "miss"
            /\ bg.pc = "off"
            /\ IF shouldAutoDownload
               THEN dl["session"].pc # "idle"
               ELSE "not found, download?" \in prompts

\* the version record is set, its binary is gone, and the user is asked
\* whether to download
C9_Witness ==
    /\ pc = "prompt"
    /\ branch = "miss"
    /\ cachedVersion # NoVersion
    /\ cachedVersion \notin binaries

\* C10: on a cache miss with auto-download enabled the download is started
\* with no prompt; with it disabled the prompt is shown, and once it was
\* dismissed getLanguageServerPath has returned null with no request issued,
\* no download flow started, the version store, the setting and the storage
\* root as they were, and no error message of its own (the only one is the
\* one activate shows afterwards).
C10_CacheMiss ==
    branch = "miss" =>
        /\ shouldAutoDownload =>
              /\ "not found, download?" \notin prompts
              /\ dl["session"].pc # "idle"
              /\ missChoice = "none"
        /\ ~shouldAutoDownload => "not found, download?" \in prompts
        /\ missChoice = "dismissed" =>
              /\ Returned
              /\ serverPath = NULL
              /\ client = NULL
              /\ network = {}
              /\ \A f \in Flows : dl[f].pc = "idle" /\ reaper[f].phase = "off"
              /\ Snapshot = snap
              /\ pc = "returned" => errorMessages = {}
              /\ errorMessages \subseteq
                    {<<"Could not find or download the FlatBuffers language server", "">>}

\* the prompt was dismissed with a stale installation on disk, and activate
\* has ended inert
C10_Witness ==
    /\ branch = "miss"
    /\ missChoice = "dismissed"
    /\ pc = "inert"
    /\ entries # {}

\* C11 (as claimed): a flow that found the binary of the resolved version
\* at its path returns that path.
C11_ExistingBinaryIsReturned ==
    \A f \in Flows :
        (dl[f].foundExisting /\ dl[f].pc = "done") =>
            dl[f].result = BinaryPath(platform, dl[f].latestVersion)

\* C11 (amended): a flow that found the binary of the resolved version at
\* its path requests no artifact, runs no download/extract step, adds no
\* entry (no temporary archive) to the storage root and leaves the binary
\* in place; it returns that path, unless re-asserting the executable bit
\* threw, and then it returns null after the error message.  Once its
\* reaper has ended without a failed removal the storage root holds the
\* directory of that version alone, whatever it held before, so a repeated
\* call ends in the storage state of a single one.
C11_InstallerIdempotence ==
    \A f \in Flows :
        dl[f].foundExisting =>
            LET v == dl[f].latestVersion
            IN  /\ dl[f].pc = "done"
                /\ ~dl[f].fetchReturned
                /\ "download" \notin network
                /\ entries \subseteq snap.entries
                /\ v \in binaries
                /\ VersionDirName(v) \in entries
                /\ IF <<FailText(dl[f].isUpdate), "chmod failed">> \in errorMessages
                   THEN dl[f].result = NULL /\ platform[1] # "win32"
                   ELSE dl[f].result = BinaryPath(platform, v)
                /\ ( /\ reaper[f].phase = "done"
                     /\ "Error cleaning up old versions" \notin consoleErrors ) =>
                        /\ entries = {VersionDirName(v)}
                        /\ binaries = {v}

\* the binary was found and its path returned, and the reaper has since
\* removed stale entries: nothing was downloaded
C11_Witness ==
    /\ dl["session"].foundExisting
    /\ dl["session"].result = BinaryPath(platform, dl["session"].latestVersion)
    /\ reaper["session"].phase = "done"
    /\ entries # snap.entries
    /\ entries = {VersionDirName(dl["session"].latestVersion)}

\* C12 (as claimed): when the reaper has ended, every stale entry it found
\* is deleted, except one whose removal failed.
C12_ReaperIsBestEffortPerEntry ==
    \A f \in Flows :
        reaper[f].phase = "done" =>
            \A e \in entries :
                (startsWith(e, VERSION_PREFIX) /\ e \in reaper[f].todo) =>
                    e = reaper[f].failed

\* the documented asset names, as a table
C13_Arch == [ x64 |-> "x86_64", arm64 |-> "aarch64" ]
C13_Triple == [ darwin |-> "apple-darwin", linux |-> "unknown-linux-gnu",
                win32 |-> "pc-windows-msvc" ]

\* C13: for each of {darwin, linux, win32} x {x64, arm64} and each version
\* getAssetName returns <binary-name>-<version>-<arch>-<os-triple>.<ext>,
\* with zip exactly for Windows and tar.gz otherwise; for every other
\* operating system or architecture it returns null.
C13_AssetNameFormat ==
    selector.called =>
        LET os   == platform[1]
            arch == platform[2]
            name == selector.name
        IN  IF os \in DOMAIN C13_Triple /\ arch \in DOMAIN C13_Arch
            THEN /\ Len(name) = 9
                 /\ SubSeq(name, 1, 4) = <<"flatbuffers-language-server", "-",
                                           selector.version, "-">>
                 /\ name[5] = C13_Arch[arch]
                 /\ name[6] = "-"
                 /\ name[7] = C13_Triple[os]
                 /\ name[8] = "."
                 /\ name[9] \in {"zip", "tar.gz"}
                 /\ (name[9] = "zip") <=> (name[7] = "pc-windows-msvc")
            ELSE name = NULL

\* a name has been computed for Windows on arm64
C13_Witness ==
    /\ selector.called
    /\ platform = <<"win32", "arm64">>
    /\ selector.name[9] = "zip"

\* C14: while a flow of the background update check runs or has run, the
\* session stays as getLanguageServerPath resolved it, on the binary of the
\* version that was cached at activation, also after a newer version has
\* been installed and recorded; and reloadWindow has been executed only if
\* the user chose 'Reload Now' in the update's message or 'Reload Window'
\* in the settings watcher's.
C14_NoHotSwap ==
    /\ reloadCommand =>
          \/ settingsPrompt = "Reload Window"
          \/ \E f \in Flows : dl[f].reloadChoice = "Reload Now"
    /\ \A f \in Flows : dl[f].reloadChoice # "none" => dl[f].isUpdate
    /\ dl["session"].isUpdate =>
          /\ pc \in {"returned", "running"}
          /\ serverPath = BinaryPath(platform, cachedVersion)
          /\ pc = "running" => client.command = BinaryPath(platform, cachedVersion)

\* the update is installed and recorded, its reload message was dismissed,
\* and the session still runs on the older binary
C14_Witness ==
    /\ pc = "running"
    /\ dl["session"].isUpdate
    /\ dl["session"].pc = "done"
    /\ dl["session"].fetchReturned
    /\ dl["session"].reloadChoice = "dismissed"
    /\ latestKnownVersion = dl["session"].latestVersion
    /\ latestKnownVersion # cachedVersion
    /\ client.command = BinaryPath(platform, cachedVersion)
    /\ ~reloadCommand

\* C15: a language client exists only once getLanguageServerPath has
\* returned a path; it was started with exactly that path as its command
\* and no arguments.  When getLanguageServerPath returned null the
\* activation ends inert after the error message, no client is ever
\* created, and deactivate then returns with nothing to stop.
C15_SessionOrdering ==
    /\ client # NULL =>
          /\ pc \in {"running", "deactivated"}
          /\ serverPath # NULL
          /\ client.command = serverPath
          /\ client.args = <<>>
          /\ client.state = IF pc = "running" THEN "started" ELSE "stopped"
    /\ pc = "running" => client # NULL
    /\ pc = "inert" =>
          /\ serverPath = NULL
          /\ <<"Could not find or download the FlatBuffers language server", "">>
                \in errorMessages
          /\ ENABLED Deactivate
    /\ (pc \in {"inert", "deactivated"} /\ serverPath = NULL) => client = NULL

\* the download of a cache miss failed, the activation ended inert, and
\* deactivate has returned
C15_Witness ==
    /\ pc = "deactivated"
    /\ serverPath = NULL
    /\ client = NULL
    /\ entries # {}
    /\ latestKnownVersion = NoVersion

\* C16 (as claimed): when two concurrent flows for the same version have
\* both ended, and no step failed for a reason outside the two flows (the
\* only failure being an archive that was no longer there), each flow has
\* returned the binary's path, the binary is on disk, the version store
\* reports the version and no temporary archive is left.
C16_ConcurrentFlowsConverge ==
    LET s == dl["session"]
        o == dl["other"]
        v == s.latestVersion
    IN  ( /\ s.pc = "done" /\ o.pc = "done"
          /\ v # NoVersion /\ o.latestVersion = v
          /\ \A m \in errorMessages : m[2] = "archive missing"
          /\ consoleErrors = {} ) =>
            /\ s.result = BinaryPath(platform, v)
            /\ o.result = BinaryPath(platform, v)
            /\ v \in binaries
            /\ latestKnownVersion = v
            /\ getAssetName(platform, v) \notin entries

\* the flows of one activation: the update check belongs to the cache
\* branch and the initial download to the miss branch, and never both
C17_OneFlow ==
    /\ bg.pc # "off" =>
          /\ branch = "cache"
          /\ pc \in {"returned", "running"}
          /\ dl["session"].pc # "idle" => dl["session"].isUpdate
    /\ (dl["session"].pc # "idle" /\ ~dl["session"].isUpdate) =>
          /\ branch = "miss"
          /\ bg.pc = "off"
    /\ dl["session"].isUpdate =>
          /\ branch = "cache"
          /\ bg.pc \in {"downloading", "done"}
    /\ branch \in {"config", "which", "miss", "none"} => bg.pc = "off"
    /\ branch \in {"config", "which", "cache", "none"} =>
          (dl["session"].pc = "idle" \/ dl["session"].isUpdate)
    /\ dl["other"].pc = "idle"

\* the starts of the flows: the check starts from its initial state in the
\* step of the cache branch that returns the cached path, the download
\* starts from its initial state, and neither returns to its initial state
\* before the activation ends
C17_Starts ==
    /\ (bg'.pc = "release" /\ bg.pc # "release") =>
          /\ bg.pc = "off"
          /\ pc = "cache"
          /\ pc' = "returned"
          /\ serverPath' = BinaryPath(platform, cachedVersion)
    /\ (bg.pc # "off" /\ bg'.pc = "off") => pc' \in {"activate", "deactivated"}
    /\ (dl'["session"].pc = "ensureDir" /\ dl["session"].pc # "ensureDir") =>
          dl["session"].pc = "idle"
    /\ (dl["session"].pc # "idle" /\ dl'["session"].pc = "idle") =>
          pc' \in {"activate", "deactivated"}

\* C17: within one activation at most one acquisition or update flow is
\* started: the background check only on the cache-hit branch, once, in the
\* step that returns the path; never with a foreground download in the same
\* activation, and no foreground download in an activation that started
\* the check.
C17_SingleFlowPerActivation == []C17_OneFlow /\ [][C17_Starts]_vars

\* the update check of a cache hit has started its install: the only
\* download flow of the activation
C17_Witness ==
    /\ branch = "cache"
    /\ bg.pc = "downloading"
    /\ dl["session"].isUpdate
    /\ dl["session"].pc = "extract"

\* C18 (as claimed): an entry that a step of the reaper removes from the
\* storage root is not the entry to keep, has a name beginning with the
\* version prefix, and is not the temporary archive of a download flow that
\* has written it and not yet extracted it.
C18_ReaperFrame ==
    [][ \A f \in Flows : \A e \in entries \ entries' :
            ( /\ reaper[f].phase = "loop"
              /\ e \in reaper[f].todo
              /\ e \notin reaper'[f].todo ) =>
                /\ e # reaper[f].keep
                /\ startsWith(e, VERSION_PREFIX)
                /\ \A g \in Flows :
                      ~( /\ dl[g].pc = "extract"
                         /\ e = getAssetName(platform, dl[g].latestVersion) )
      ]_vars

\* a flow that has not completed its install, or has ended in failure,
\* has left the version store as it was when the activation began
C19_StoreKept ==
    \A f \in Flows :
        /\ dl[f].pc \in {"ensureDir", "release", "pathExists", "fetch", "extract",
                         "chmod", "persist"} =>
              latestKnownVersion = snap.known
        /\ ( \/ dl[f].pc = "threw"
             \/ dl[f].pc = "done" /\ dl[f].result = NULL ) =>
              /\ latestKnownVersion = snap.known
              /\ latestSkippedVersion = snap.skipped

\* the step that changes the version record is the one that follows the
\* chmod of a flow that downloaded and extracted the archive; it records
\* that flow's version, whose binary is on disk
C19_RecordStep ==
    latestKnownVersion' # latestKnownVersion =>
        \E f \in Flows :
            /\ dl[f].pc = "persist"
            /\ dl'[f].pc \in {"reloadPrompt", "cleanup"}
            /\ dl[f].fetchReturned
            /\ latestKnownVersion' = dl[f].latestVersion
            /\ dl[f].latestVersion \in binaries
            /\ VersionDirName(dl[f].latestVersion) \in entries

\* C19: the cached-version record is written only by a completed install:
\* it is set to V only after V's archive was extracted and its binary made
\* executable, with the binary on disk at that moment, and a flow that ends
\* in failure at any step leaves latestKnownVersion and
\* latestSkippedVersion as they were.
C19_RecordOnlyByCompletedInstall == []C19_StoreKept /\ [][C19_RecordStep]_vars

\* an update was downloaded and extracted and then failed: the record still
\* names the older version
C19_Witness ==
    /\ dl["session"].pc = "done"
    /\ dl["session"].result = NULL
    /\ dl["session"].fetchReturned
    /\ dl["session"].latestVersion \in binaries
    /\ latestKnownVersion # NoVersion
    /\ latestKnownVersion # dl["session"].latestVersion

\* C20 (as claimed): the version an update flow has resolved, and goes on
\* to install or to return as installed, is the version its update check
\* compared with the cached and the skipped version.
C20_InstallsComparedVersion ==
    ( /\ dl["session"].isUpdate
      /\ dl["session"].latestVersion # NoVersion ) =>
        dl["session"].latestVersion = bg.latestVersion

=============================================================================
